---- MODULE Spec2Model ----
(***************************************************************************)
(* Site Change Monitor (Lite): main.py.                                    *)
(*                                                                         *)
(* A text is a sequence of one-character strings.  The persisted state     *)
(* file data/state.json is a record [kind, obj]; a run of main() is one    *)
(* action that loads the state, fetches the page, classifies, renders      *)
(* index.html and saves the new state.  build_diff is modelled with        *)
(* difflib's matching-block recursion, grouping and unified output.        *)
(* The snapshot fields target_url, last_checked_utc and last_title are     *)
(* written but never read back by main(), and are left out of the model.   *)
(***************************************************************************)
EXTENDS Integers, Sequences, FiniteSets, TLC

VARIABLES file, page, run, dprev, dcur, dmax, dout, dpc

vars == <<file, page, run, dprev, dcur, dmax, dout, dpc>>

(***************************************************************************)
(* Bounds                                                                  *)
(***************************************************************************)
\* longest raw page text drawn for a run
MaxText == 3
\* largest max_text_chars drawn for a run (the smallest is -1)
MaxChars == 2
\* width of the modelled digest, in hex digits
DigestLen == 3
\* most lines of an input drawn for build_diff
MaxDiffInputLines == 5
\* largest max_lines drawn for build_diff
MaxCap == 6

(***************************************************************************)
(* Program constants                                                       *)
(***************************************************************************)
DiffChars == 5000
DiffMaxLines == 220
SnippetChars == 500
Context == 3

(***************************************************************************)
(* Characters and texts                                                    *)
(***************************************************************************)
PageChars == {"a", "\n"}
LineChars == {"a", "b"}

IsSpace(c) == c \in {" ", "\n"}

CharCode(c) == CASE c = "a" -> 1 [] c = "b" -> 2 [] c = " " -> 3 [] OTHER -> 4

SeqsUpTo(S, n) == UNION {[1..k -> S] : k \in 0..n}

Min(a, b) == IF a < b THEN a ELSE b
Max(a, b) == IF a > b THEN a ELSE b

\* Python s[:n], negative n counted from the end
slice(s, n) ==
    IF n >= 0 THEN SubSeq(s, 1, Min(n, Len(s)))
    ELSE SubSeq(s, 1, Max(0, Len(s) + n))

RECURSIVE lstrip(_)
lstrip(s) == IF s # <<>> /\ IsSpace(Head(s)) THEN lstrip(Tail(s)) ELSE s

RECURSIVE rstrip(_)
rstrip(s) ==
    IF s # <<>> /\ IsSpace(s[Len(s)]) THEN rstrip(SubSeq(s, 1, Len(s) - 1)) ELSE s

strip(s) == rstrip(lstrip(s))

RECURSIVE TokenLen(_)
TokenLen(s) == IF s = <<>> \/ IsSpace(Head(s)) THEN 0 ELSE 1 + TokenLen(Tail(s))

\* str.split() with no argument: the maximal runs of non-whitespace
RECURSIVE split(_)
split(s) ==
    LET t == lstrip(s)
        k == TokenLen(t)
    IN  IF t = <<>> THEN <<>>
        ELSE <<SubSeq(t, 1, k)>> \o split(SubSeq(t, k + 1, Len(t)))

\* sep.join(parts)
RECURSIVE join(_, _)
join(sep, parts) ==
    IF parts = <<>> THEN <<>>
    ELSE IF Len(parts) = 1 THEN parts[1]
    ELSE parts[1] \o sep \o join(sep, Tail(parts))

normalize_text(s) == strip(join(<<" ">>, split(s)))

(***************************************************************************)
(* sha256: a fixed-width hex digest; the model folds the character codes   *)
(* in base 5 modulo 16^DigestLen, which is injective on the texts drawn.   *)
(***************************************************************************)
RECURSIVE Pow(_, _)
Pow(b, e) == IF e = 0 THEN 1 ELSE b * Pow(b, e - 1)

RECURSIVE Fold(_)
Fold(s) == IF s = <<>> THEN 0 ELSE CharCode(Head(s)) + 5 * Fold(Tail(s))

sha256(s) ==
    LET v == Fold(s) % Pow(16, DigestLen)
    IN  [i \in 1..DigestLen |-> (v \div Pow(16, DigestLen - i)) % 16]

(***************************************************************************)
(* State store                                                             *)
(***************************************************************************)
EmptyDict == [k \in {} |-> <<>>]

get(d, k, default) == IF k \in DOMAIN d THEN d[k] ELSE default

\* data/state.json by its content: "missing"; "garbage" (not parseable as
\* JSON, the empty file included); "falsy" (null, 0, "", [] or {}); "nonobject"
\* (a non-empty list or string, a number, true); "object" (a JSON object
\* without the snapshot's fields); "snapshot" (what save_state wrote)
NoFile == [kind |-> "missing", obj |-> EmptyDict]
Garbage == [kind |-> "garbage", obj |-> EmptyDict]

\* what load_state returns: a dict, or the parsed value when it is a
\* truthy JSON value that is not an object
load_state(f) ==
    IF f.kind = "missing" THEN [isdict |-> TRUE, d |-> EmptyDict]
    ELSE IF f.kind = "garbage" THEN [isdict |-> TRUE, d |-> EmptyDict]
    ELSE IF f.kind = "falsy" THEN [isdict |-> TRUE, d |-> EmptyDict]
    ELSE IF f.kind = "nonobject" THEN [isdict |-> FALSE, d |-> EmptyDict]
    ELSE [isdict |-> TRUE, d |-> f.obj]

\* save_state: mkdir and open("w") may fail before the file is touched;
\* open("w") truncates, so a failure of the write leaves a prefix of the
\* JSON text, which is never parseable
save_state(f, state, failAt) ==
    IF failAt = "open" THEN f
    ELSE IF failAt = "write" THEN Garbage
    ELSE [kind |-> "snapshot", obj |-> state]

(***************************************************************************)
(* build_diff: str.splitlines, difflib.SequenceMatcher, unified_diff.      *)
(* Positions are 0-based and ranges half-open, as in difflib.              *)
(***************************************************************************)
RECURSIVE LineLen(_)
LineLen(s) == IF s = <<>> \/ Head(s) = "\n" THEN 0 ELSE 1 + LineLen(Tail(s))

RECURSIVE splitlines(_)
splitlines(s) ==
    LET k == LineLen(s)
    IN  IF s = <<>> THEN <<>>
        ELSE IF k = Len(s) THEN <<s>>
        ELSE <<SubSeq(s, 1, k)>> \o splitlines(SubSeq(s, k + 2, Len(s)))

\* a[i:i+k] = b[j:j+k]
SameBlock(a, b, i, j, k) == \A t \in 1..k : a[i + t] = b[j + t]

\* the longest common block of a[alo:ahi] and b[blo:bhi], the one starting
\* earliest in a and then earliest in b; <<alo, blo, 0>> when there is none
find_longest_match(a, b, alo, ahi, blo, bhi) ==
    LET cands == {c \in (alo..(ahi - 1)) \X (blo..(bhi - 1)) \X (1..(ahi - alo)) :
                     /\ c[1] + c[3] <= ahi
                     /\ c[2] + c[3] <= bhi
                     /\ SameBlock(a, b, c[1], c[2], c[3])}
        better(c, d) == \/ c[3] > d[3]
                        \/ c[3] = d[3] /\ c[1] < d[1]
                        \/ c[3] = d[3] /\ c[1] = d[1] /\ c[2] <= d[2]
    IN  IF cands = {} THEN <<alo, blo, 0>>
        ELSE CHOOSE c \in cands : \A d \in cands : better(c, d)

\* the blocks left of the match m, m itself, and the blocks right of it
RECURSIVE blocks_between(_, _, _, _, _, _)
RECURSIVE blocks_around(_, _, _, _, _, _, _)
blocks_around(a, b, alo, ahi, blo, bhi, m) ==
    IF m[3] = 0 THEN <<>>
    ELSE (IF alo < m[1] /\ blo < m[2]
          THEN blocks_between(a, b, alo, m[1], blo, m[2]) ELSE <<>>)
         \o <<m>>
         \o (IF m[1] + m[3] < ahi /\ m[2] + m[3] < bhi
             THEN blocks_between(a, b, m[1] + m[3], ahi, m[2] + m[3], bhi) ELSE <<>>)

blocks_between(a, b, alo, ahi, blo, bhi) ==
    blocks_around(a, b, alo, ahi, blo, bhi,
                  find_longest_match(a, b, alo, ahi, blo, bhi))

\* adjacent blocks are merged into one
RECURSIVE collapse(_, _)
collapse(blocks, cur) ==
    IF blocks = <<>> THEN (IF cur[3] > 0 THEN <<cur>> ELSE <<>>)
    ELSE LET n == Head(blocks)
         IN  IF cur[1] + cur[3] = n[1] /\ cur[2] + cur[3] = n[2]
             THEN collapse(Tail(blocks), <<cur[1], cur[2], cur[3] + n[3]>>)
             ELSE (IF cur[3] > 0 THEN <<cur>> ELSE <<>>) \o collapse(Tail(blocks), n)

get_matching_blocks(a, b) ==
    collapse(blocks_between(a, b, 0, Len(a), 0, Len(b)), <<0, 0, 0>>)
        \o <<<<Len(a), Len(b), 0>>>>

Op(tag, i1, i2, j1, j2) == [tag |-> tag, i1 |-> i1, i2 |-> i2, j1 |-> j1, j2 |-> j2]

RECURSIVE opcodes_from(_, _, _)
opcodes_from(blocks, i, j) ==
    IF blocks = <<>> THEN <<>>
    ELSE LET ai == Head(blocks)[1]
             bj == Head(blocks)[2]
             size == Head(blocks)[3]
             gap == IF i < ai /\ j < bj THEN <<Op("replace", i, ai, j, bj)>>
                    ELSE IF i < ai THEN <<Op("delete", i, ai, j, bj)>>
                    ELSE IF j < bj THEN <<Op("insert", i, ai, j, bj)>>
                    ELSE <<>>
             eq == IF size > 0 THEN <<Op("equal", ai, ai + size, bj, bj + size)>>
                   ELSE <<>>
         IN  gap \o eq \o opcodes_from(Tail(blocks), ai + size, bj + size)

get_opcodes(a, b) == opcodes_from(get_matching_blocks(a, b), 0, 0)

RECURSIVE group_loop(_, _, _)
group_loop(codes, group, n) ==
    IF codes = <<>>
    THEN (IF group # <<>> /\ ~(Len(group) = 1 /\ group[1].tag = "equal")
          THEN <<group>> ELSE <<>>)
    ELSE LET c == Head(codes)
         IN  IF c.tag = "equal" /\ c.i2 - c.i1 > 2 * n
             THEN <<group \o <<Op("equal", c.i1, Min(c.i2, c.i1 + n),
                                   c.j1, Min(c.j2, c.j1 + n))>>>>
                  \o group_loop(Tail(codes),
                                <<Op("equal", Max(c.i1, c.i2 - n), c.i2,
                                     Max(c.j1, c.j2 - n), c.j2)>>, n)
             ELSE group_loop(Tail(codes), group \o <<c>>, n)

\* an empty list of opcodes stands for one equal line
or_one_equal(codes) == IF codes = <<>> THEN <<Op("equal", 0, 1, 0, 1)>> ELSE codes

\* a leading run of equal lines keeps its last n lines
trim_first(codes, n) ==
    IF codes[1].tag = "equal"
    THEN [codes EXCEPT ![1] = Op("equal", Max(@.i1, @.i2 - n), @.i2,
                                 Max(@.j1, @.j2 - n), @.j2)]
    ELSE codes

\* a trailing run of equal lines keeps its first n lines
trim_last(codes, n) ==
    IF codes[Len(codes)].tag = "equal"
    THEN [codes EXCEPT ![Len(codes)] = Op("equal", @.i1, Min(@.i2, @.i1 + n),
                                          @.j1, Min(@.j2, @.j1 + n))]
    ELSE codes

get_grouped_opcodes(a, b, n) ==
    group_loop(trim_last(trim_first(or_one_equal(get_opcodes(a, b)), n), n), <<>>, n)

\* one line of the diff text
Line(tag, text, range) == [tag |-> tag, text |-> text, range |-> range]

TruncationMarker == Line("... (diff truncated)", <<>>, <<>>)
NoPreviousText == Line("(no previous snapshot yet - run once more to compare)", <<>>, <<>>)

format_range_unified(start, stop) ==
    IF stop - start = 1 THEN <<start + 1>>
    ELSE IF stop - start = 0 THEN <<start, 0>>
    ELSE <<start + 1, stop - start>>

Prefixed(tag, lines, lo, hi) == [t \in 1..(hi - lo) |-> Line(tag, lines[lo + t], <<>>)]

RECURSIVE hunk_body(_, _, _)
hunk_body(a, b, group) ==
    IF group = <<>> THEN <<>>
    ELSE LET c == Head(group)
         IN  (IF c.tag = "equal" THEN Prefixed(" ", a, c.i1, c.i2)
              ELSE (IF c.tag \in {"replace", "delete"}
                    THEN Prefixed("-", a, c.i1, c.i2) ELSE <<>>)
                   \o (IF c.tag \in {"replace", "insert"}
                       THEN Prefixed("+", b, c.j1, c.j2) ELSE <<>>))
             \o hunk_body(a, b, Tail(group))

RECURSIVE hunks(_, _, _)
hunks(a, b, groups) ==
    IF groups = <<>> THEN <<>>
    ELSE LET g == Head(groups)
             first == g[1]
             last == g[Len(g)]
         IN  <<Line("@@", <<>>, format_range_unified(first.i1, last.i2)
                                 \o format_range_unified(first.j1, last.j2))>>
             \o hunk_body(a, b, g)
             \o hunks(a, b, Tail(groups))

\* the two file lines come before the first hunk, if there is one
with_header(hunk_lines) ==
    IF hunk_lines = <<>> THEN <<>>
    ELSE <<Line("--- previous", <<>>, <<>>), Line("+++ current", <<>>, <<>>)>>
         \o hunk_lines

\* difflib.unified_diff(a, b, fromfile="previous", tofile="current", lineterm="")
unified_diff(a, b) == with_header(hunks(a, b, get_grouped_opcodes(a, b, Context)))

RECURSIVE diff_loop(_, _, _)
diff_loop(diff, i, max_lines) ==
    IF diff = <<>> THEN <<>>
    ELSE IF i >= max_lines THEN <<TruncationMarker>>
    ELSE <<Head(diff)>> \o diff_loop(Tail(diff), i + 1, max_lines)

\* the list out of build_diff; the code returns its lines joined by "\n"
build_diff(prev, cur, max_lines) ==
    diff_loop(unified_diff(splitlines(prev), splitlines(cur)), 0, max_lines)

(***************************************************************************)
(* main                                                                    *)
(***************************************************************************)
\* fetch_page_text: the extracted text, normalized; or an exception
fetch_page_text(raw) == [ok |-> TRUE, text |-> normalize_text(raw)]
FetchError == [ok |-> FALSE, text |-> <<>>]

\* variant: any previous digest counts as a change
changed_whenever_previous(prev_hash, cur_hash) == prev_hash # <<>>

changed(prev_hash, cur_hash) == prev_hash # <<>> /\ cur_hash # prev_hash

status_of(ch) == IF ch THEN "Change detected" ELSE "No change detected"

diff_text_of(prev_text, cur_text) ==
    IF prev_text # <<>>
    THEN build_diff(slice(prev_text, DiffChars), slice(cur_text, DiffChars), DiffMaxLines)
    ELSE <<NoPreviousText>>

\* the fields of index.html that depend on the run; prev_hash <<>> is shown as "-"
render_html(status, prev_hash, cur_hash, diff_text, snippet) ==
    [status |-> status, prev_hash |-> prev_hash, cur_hash |-> cur_hash,
     diff_text |-> diff_text, snippet |-> snippet]

NoPage == render_html("", <<>>, <<>>, <<>>, <<>>)

\* variant: the text is normalized again before it is stored
state_out_renormalized(cur_hash, cur_text) ==
    [last_hash |-> cur_hash, last_text |-> normalize_text(cur_text)]

state_out(cur_hash, cur_text) == [last_hash |-> cur_hash, last_text |-> cur_text]

\* what a run leaves behind: the two files and the record of the run
Result(f, pg, outcome, exit, status, prior, prev_hash, prev_text, fetched, max_chars, cur_hash, cur_text, diff_text) ==
    [file |-> f, page |-> pg,
     run |-> [outcome |-> outcome, exit |-> exit, status |-> status,
              prior |-> prior, prev_hash |-> prev_hash, prev_text |-> prev_text,
              fetched |-> fetched, max_chars |-> max_chars,
              cur_hash |-> cur_hash, cur_text |-> cur_text,
              diff_text |-> diff_text]]

NoRun == Result(NoFile, NoPage, "none", 0, "", "missing", <<>>, <<>>, <<>>, 0,
                <<>>, <<>>, <<>>).run

\* main from the truncation of the fetched text to the end
classify_and_save(f, state, fetched, max_chars, failAt) ==
    LET prev_text == get(state, "last_text", <<>>)
        prev_hash == get(state, "last_hash", <<>>)
        cur_text == slice(fetched, max_chars)
        cur_hash == sha256(cur_text)
        status == status_of(changed(prev_hash, cur_hash))
        diff_text == diff_text_of(prev_text, cur_text)
        html == render_html(status, prev_hash, cur_hash, diff_text,
                            slice(cur_text, SnippetChars))
        saved == save_state(f, state_out(cur_hash, cur_text), failAt)
    IN  Result(saved, html,
               IF failAt = "none" THEN "ok" ELSE "save_failed",
               IF failAt = "none" THEN 0 ELSE 1,
               status, f.kind, prev_hash, prev_text, fetched, max_chars,
               cur_hash, cur_text, diff_text)

\* variant: the state file is opened for writing before the page is fetched
main_opens_state_first(f, pg, fetch, max_chars, failAt) ==
    LET state == load_state(f)
    IN  IF ~state.isdict
        THEN Result(f, pg, "load_crash", 1, "", f.kind, <<>>, <<>>, <<>>,
                    max_chars, <<>>, <<>>, <<>>)
        ELSE IF ~fetch.ok
        THEN Result(Garbage, pg, "fetch_failed", 1, "", f.kind,
                    get(state.d, "last_hash", <<>>), get(state.d, "last_text", <<>>),
                    <<>>, max_chars, <<>>, <<>>, <<>>)
        ELSE classify_and_save(f, state.d, fetch.text, max_chars, failAt)

\* one run of main(): fetch is what fetch_page_text does in this run,
\* failAt the place where save_state fails ("none" when it does not)
main(f, pg, fetch, max_chars, failAt) ==
    LET state == load_state(f)
    IN  IF ~state.isdict
        THEN Result(f, pg, "load_crash", 1, "", f.kind, <<>>, <<>>, <<>>,
                    max_chars, <<>>, <<>>, <<>>)
        ELSE IF ~fetch.ok
        THEN Result(f, pg, "fetch_failed", 1, "", f.kind,
                    get(state.d, "last_hash", <<>>), get(state.d, "last_text", <<>>),
                    <<>>, max_chars, <<>>, <<>>, <<>>)
        ELSE classify_and_save(f, state.d, fetch.text, max_chars, failAt)

(***************************************************************************)
(* Inputs                                                                  *)
(***************************************************************************)
RawTexts == SeqsUpTo(PageChars, MaxText)
MaxCharsValues == (0 - 1)..MaxChars
DiffTexts == {join(<<"\n">>, l) :
                 l \in SeqsUpTo({<<c>> : c \in LineChars}, MaxDiffInputLines)}
\* the state file a first run may find: none, or one it did not write
StartKinds == {"missing", "garbage", "falsy", "nonobject", "object"}

(***************************************************************************)
(* Runs                                                                    *)
(***************************************************************************)
Init ==
    /\ \E k \in StartKinds : file = [kind |-> k, obj |-> EmptyDict]
    /\ page = NoPage
    /\ run = NoRun
    /\ dprev = <<>>
    /\ dcur = <<>>
    /\ dmax = 0
    /\ dout = <<>>
    /\ dpc = "idle"

Apply(r) ==
    /\ file' = r.file
    /\ page' = r.page
    /\ run' = r.run
    /\ UNCHANGED <<dprev, dcur, dmax, dout, dpc>>

RunOk ==
    /\ load_state(file).isdict
    /\ \E raw \in RawTexts, mc \in MaxCharsValues :
          Apply(main(file, page, fetch_page_text(raw), mc, "none"))

RunFetchFail ==
    /\ load_state(file).isdict
    /\ \E mc \in MaxCharsValues : Apply(main(file, page, FetchError, mc, "none"))

RunSaveFail ==
    /\ load_state(file).isdict
    /\ \E raw \in RawTexts, mc \in MaxCharsValues, failAt \in {"open", "write"} :
          Apply(main(file, page, fetch_page_text(raw), mc, failAt))

RunLoadCrash ==
    /\ ~load_state(file).isdict
    /\ \E raw \in RawTexts, mc \in MaxCharsValues :
          Apply(main(file, page, fetch_page_text(raw), mc, "none"))

Next == RunOk \/ RunFetchFail \/ RunSaveFail \/ RunLoadCrash

Spec == Init /\ [][Next]_vars

(***************************************************************************)
(* build_diff on its own                                                   *)
(***************************************************************************)
InitDiff ==
    /\ file = NoFile
    /\ page = NoPage
    /\ run = NoRun
    /\ dprev \in DiffTexts
    /\ dcur \in DiffTexts
    /\ dmax \in 1..MaxCap
    /\ dout = <<>>
    /\ dpc = "call"

BuildDiff ==
    /\ dpc = "call"
    /\ dout' = build_diff(dprev, dcur, dmax)
    /\ dpc' = "done"
    /\ UNCHANGED <<file, page, run, dprev, dcur, dmax>>

NextDiff == BuildDiff

SpecDiff == InitDiff /\ [][NextDiff]_vars

(***************************************************************************)
(* Properties                                                              *)
(***************************************************************************)
\* the run went as far as classifying the fetched text
Classified(r) == r.outcome \in {"ok", "save_failed"}

\* the classification the run reports: its status line
classification(r) ==
    IF r.status = "Change detected" THEN "Changed"
    ELSE IF r.status = "No change detected" THEN "Unchanged"
    ELSE "Unseen"

SnapshotOf(r) == [kind |-> "snapshot", obj |-> state_out(r.cur_hash, r.cur_text)]

\* C1: a run that obtained the page text reports Unseen exactly when no
\* prior snapshot existed, Unchanged exactly when a previous digest is
\* present and equals the current one, and Changed otherwise, as three
\* different results.
C1_ThreeClassifications ==
    Classified(run) =>
        /\ classification(run) = "Unseen" <=> run.prior # "snapshot"
        /\ classification(run) = "Unchanged" <=>
              (run.prev_hash # <<>> /\ run.prev_hash = run.cur_hash)
        /\ classification(run) = "Changed" <=>
              (run.prior = "snapshot" /\ run.prev_hash # run.cur_hash)

\* C2: a successful run that follows a successful run, fetches the same
\* text under the same max_text_chars and starts from the snapshot that
\* run saved, reports no change against a present previous digest.
C2_SecondRunUnchanged ==
    [][(/\ run.outcome = "ok"
        /\ file = SnapshotOf(run)
        /\ run'.outcome = "ok"
        /\ run'.fetched = run.fetched
        /\ run'.max_chars = run.max_chars)
       => (/\ run'.status = "No change detected"
           /\ run'.prev_hash # <<>>
           /\ run'.prev_hash = run'.cur_hash
           /\ file' = file)]_vars

C2_Witness ==
    /\ run.outcome = "ok"
    /\ run.prior = "snapshot"
    /\ run.cur_text # <<>>
    /\ run.prev_text = run.cur_text
    /\ run.prev_hash = run.cur_hash
    /\ run.status = "No change detected"

\* C3: a run whose save_state fails leaves the snapshot of the last
\* successful run as it was.
C3_FailedSaveKeepsSnapshot ==
    [][(file.kind = "snapshot" /\ run'.outcome = "save_failed") => file' = file]_vars

\* C4: whatever unreadable content the state file has (missing, not
\* parseable, or parseable but not a snapshot object), the run does not
\* fail on it, and when it classifies it finds no previous digest and
\* reports no change.
C4_UnreadableStateIsAbsent ==
    (run.outcome # "none" /\ run.prior # "snapshot") =>
        /\ run.outcome # "load_crash"
        /\ Classified(run) => (run.prev_hash = <<>> /\ run.status # "Change detected")

\* C5: in every persisted snapshot, last_hash is the digest of last_text.
C5_DigestOfStoredText ==
    file.kind = "snapshot" => file.obj.last_hash = sha256(file.obj.last_text)

C5_Witness ==
    /\ file.kind = "snapshot"
    /\ run.outcome = "ok"
    /\ run.max_chars > 0
    /\ Len(run.fetched) > run.max_chars
    /\ file.obj.last_text = run.cur_text
    /\ file.obj.last_hash = run.cur_hash

\* C6: when the unified diff has more than max_lines lines, build_diff
\* returns exactly max_lines lines, the last one the truncation marker;
\* otherwise it returns the unified diff unchanged.
C6_TruncatedToMaxLines ==
    dpc = "done" =>
        LET natural == unified_diff(splitlines(dprev), splitlines(dcur))
        IN  IF Len(natural) > dmax
            THEN Len(dout) = dmax /\ dout[Len(dout)] = TruncationMarker
            ELSE dout = natural

\* C7: a run whose fetch fails changes neither the state file nor
\* index.html and exits with failure without a status, and the run after
\* it reads the same previous digest and text.
C7_FetchFailureChangesNothing ==
    [][/\ run'.outcome = "fetch_failed" =>
             (file' = file /\ page' = page /\ run'.exit = 1 /\ run'.status = "")
       /\ (run.outcome = "fetch_failed" /\ Classified(run')) =>
             (run'.prev_hash = run.prev_hash /\ run'.prev_text = run.prev_text)]_vars

C7_Witness ==
    /\ run.outcome = "fetch_failed"
    /\ file.kind = "snapshot"
    /\ file.obj.last_hash = run.prev_hash
    /\ page.cur_hash = run.prev_hash

\* C8: a run with max_text_chars <= 0 fails before it changes the state
\* file, and reports no status.
C8_NonPositiveLimitRejected ==
    [][run'.max_chars <= 0 =>
          (run'.exit # 0 /\ run'.status = "" /\ file' = file)]_vars

\* C9: the text a successful run with positive max_text_chars stores is
\* in normalized form.
C9_StoredTextNormalized ==
    (run.outcome = "ok" /\ run.max_chars > 0 /\ file.kind = "snapshot") =>
        normalize_text(file.obj.last_text) = file.obj.last_text

\* C10: a run that finds a prior snapshot and reports a change shows
\* build_diff of the bounded previous and current texts, whatever the
\* stored text; a run that finds no prior snapshot shows no diff lines.
C10_DiffExactlyWithPriorSnapshot ==
    Classified(run) =>
        /\ (run.prior = "snapshot" /\ run.status = "Change detected") =>
              run.diff_text = build_diff(slice(run.prev_text, DiffChars),
                                         slice(run.cur_text, DiffChars), DiffMaxLines)
        /\ run.prior # "snapshot" => run.diff_text \in {<<>>, <<NoPreviousText>>}

====
